---- MODULE Spec2Model ----
(***************************************************************************)
(* A model of the KoboTouchExtended device driver (device/driver.py):      *)
(*   - migrate_old_settings: the legacy positional settings migration,     *)
(*   - _modify_epub and filename_callback: the per-book pipeline and the   *)
(*     session-wide skip_renaming_files set,                               *)
(*   - sync_booklists: the batched ImageId update loop.                    *)
(* Each of the three parts has its own specification (SpecMigrate, Spec,   *)
(* SpecSync); the variables of the other parts stay at their initial       *)
(* values.                                                                 *)
(***************************************************************************)
EXTENDS Integers, Sequences, FiniteSets, TLC

VARIABLES
    settings,             \* migrate: the settings object (fields + extra_customization)
    orig_settings,        \* migrate: the settings object before the first call
    prev_settings,        \* migrate: the settings object before the latest call
    runs,                 \* migrate: number of calls of migrate_old_settings so far
    prefs,                \* the preference store read by get_pref
    skip_renaming_files,  \* KOBOTOUCHEXTENDED.skip_renaming_files
    last,                 \* the latest _modify_epub / filename_callback call and its outcome
    pc,                   \* sync_booklists: position in the method
    booklists,            \* sync_booklists: the booklists argument
    db,                   \* sync_booklists: ImageId column of the content table, by ContentId
    nulls,                \* sync_booklists: the queue of (ImageId, ContentId) pairs
    queued,               \* sync_booklists: the queue as first built (history)
    batches,              \* sync_booklists: the executemany calls issued so far
    calibre_details,      \* metadata injection: the driveinfo.calibre file on the device
    kte_data              \* metadata injection: what became of driverinfo.kte

vars == <<settings, orig_settings, prev_settings, runs, prefs, skip_renaming_files,
          last, pc, booklists, db, nulls, queued, batches, calibre_details,
          kte_data>>

migrate_vars == <<settings, orig_settings, prev_settings, runs>>
epub_vars == <<prefs, skip_renaming_files, last>>
sync_vars == <<pc, booklists, db, nulls, queued, batches>>
inject_vars == <<calibre_details, kte_data>>

(***************************************************************************)
(* Bounds of the model.                                                    *)
(***************************************************************************)
MaxLen == 18      \* longest legacy extra_customization array
MaxRuns == 2      \* calls of migrate_old_settings on one settings object

(***************************************************************************)
(* Python values.  A value carries its Python type and an identity; the    *)
(* legacy array is untyped, and the only type test the driver makes is     *)
(* isinstance(value, str).                                                 *)
(***************************************************************************)
PyValue(type, v) == [type |-> type, v |-> v]
PyNone == PyValue("NoneType", 0)
isinstance_str(x) == x.type = "str"

\* list[from:] -- slicing never raises, an out-of-range start gives [].
slice_from(list, from) ==
    IF from >= Len(list) THEN <<>> ELSE SubSeq(list, from + 1, Len(list))

\* list[:n] and "del list[:n]"
slice_to(list, n) ==
    IF n >= Len(list) THEN list ELSE SubSeq(list, 1, n)

(***************************************************************************)
(* migrate_old_settings                                                    *)
(***************************************************************************)
opt_extra_features == 0
opt_upload_encumbered == 1
opt_skip_failed == 2
opt_hypnenate == 3
opt_smarten_punctuation == 4
opt_clean_markup == 5
opt_full_page_numbers == 6
opt_file_copy_dir == 7
opt_disable_hyphenation == 8
\* count_options is incremented once after each option but the last one.
count_options == opt_disable_hyphenation

\* try: value = extra_customization[idx]  except IndexError: pass
\* (the field keeps its prior value when the index is missing)
read_option(prior, extra_customization, idx) ==
    IF idx < Len(extra_customization) THEN extra_customization[idx + 1] ELSE prior

\* try: file_copy_dir = extra_customization[idx]
\*      if not isinstance(file_copy_dir, str): file_copy_dir = None
\* except IndexError: pass
\* A variant of read_file_copy_dir: the value read is kept whatever its type.
read_file_copy_dir_raw(prior, extra_customization, idx) ==
    IF idx < Len(extra_customization)
    THEN extra_customization[idx + 1]
    ELSE prior

read_file_copy_dir(prior, extra_customization, idx) ==
    IF idx < Len(extra_customization)
    THEN IF isinstance_str(extra_customization[idx + 1])
         THEN extra_customization[idx + 1]
         ELSE PyNone
    ELSE prior

\* A variant of needs_migration: the threshold one lower.
needs_migration_short(extra_customization) ==
    Len(extra_customization) >= count_options - 1

\* if len(settings.extra_customization) >= count_options:
needs_migration(extra_customization) ==
    Len(extra_customization) >= count_options

\* Variants of remaining_options: the slice starting one element earlier, or
\* one later.
remaining_options_keep_one(extra_customization) ==
    slice_from(extra_customization, count_options)

remaining_options_drop_one_more(extra_customization) ==
    slice_from(extra_customization, count_options + 2)

\* settings.extra_customization = settings.extra_customization[count_options + 1:]
remaining_options(extra_customization) ==
    slice_from(extra_customization, count_options + 1)

migrate_old_settings(s) ==
    LET ec == s.extra_customization IN
    IF needs_migration(ec)
    THEN [extra_features      |-> read_option(s.extra_features, ec, opt_extra_features),
          upload_encumbered   |-> read_option(s.upload_encumbered, ec, opt_upload_encumbered),
          skip_failed         |-> read_option(s.skip_failed, ec, opt_skip_failed),
          hyphenate           |-> read_option(s.hyphenate, ec, opt_hypnenate),
          smarten_punctuation |-> read_option(s.smarten_punctuation, ec,
                                              opt_smarten_punctuation),
          clean_markup        |-> read_option(s.clean_markup, ec, opt_clean_markup),
          file_copy_dir       |-> read_file_copy_dir(s.file_copy_dir, ec,
                                                     opt_file_copy_dir),
          full_page_numbers   |-> read_option(s.full_page_numbers, ec,
                                              opt_full_page_numbers),
          disable_hyphenation |-> read_option(s.disable_hyphenation, ec,
                                              opt_disable_hyphenation),
          extra_customization |-> remaining_options(ec)]
    ELSE s

\* The legacy arrays of the model: element i is a distinct value, so that
\* the index a field was read from shows in the field; the elements at the
\* indices the pattern names are text values, the others are not.
TextPatterns == {"none", "all", "odd", "even"}
IsTextAt(pattern, i) ==
    \/ pattern = "all"
    \/ pattern = "odd" /\ i % 2 = 1
    \/ pattern = "even" /\ i % 2 = 0
LegacyArray(n, pattern) ==
    [k \in 1..n |->
        PyValue(IF IsTextAt(pattern, k - 1) THEN "str" ELSE "int", k - 1)]

\* The structured settings before any migration: every field holds a value
\* that no legacy array holds.
PriorSettings(ec) ==
    [extra_features      |-> PyValue("bool", 100),
     upload_encumbered   |-> PyValue("bool", 101),
     skip_failed         |-> PyValue("bool", 102),
     hyphenate           |-> PyValue("bool", 103),
     smarten_punctuation |-> PyValue("bool", 104),
     clean_markup        |-> PyValue("bool", 105),
     full_page_numbers   |-> PyValue("bool", 106),
     file_copy_dir       |-> PyValue("str", 107),
     disable_hyphenation |-> PyValue("bool", 108),
     extra_customization |-> ec]

PolicyFields == {"extra_features", "upload_encumbered", "skip_failed", "hyphenate",
                 "smarten_punctuation", "clean_markup", "full_page_numbers",
                 "file_copy_dir", "disable_hyphenation"}

InitMigrateVars ==
    /\ \E n \in 0..MaxLen, pattern \in TextPatterns :
           settings = PriorSettings(LegacyArray(n, pattern))
    /\ orig_settings = settings
    /\ prev_settings = settings
    /\ runs = 0

IdleMigrateVars ==
    /\ settings = PriorSettings(<<>>)
    /\ orig_settings = settings
    /\ prev_settings = settings
    /\ runs = 0

Migrate ==
    /\ runs < MaxRuns
    /\ settings' = migrate_old_settings(settings)
    /\ prev_settings' = settings
    /\ runs' = runs + 1
    /\ UNCHANGED orig_settings

(***************************************************************************)
(* Strings.  A file name is a sequence of segments: a stem followed by     *)
(* extension segments.  No segment ends with another one, so              *)
(* str.endswith() and slicing by len() act on whole segments.             *)
(***************************************************************************)
EPUB_EXT == <<".epub">>
KEPUB_EXT == <<".kepub">>
OTHER_EXT == <<".pdf">>

endswith(path, suffix) ==
    /\ Len(path) >= Len(suffix)
    /\ SubSeq(path, Len(path) - Len(suffix) + 1, Len(path)) = suffix

\* path[:-n]
drop_last(path, n) == SubSeq(path, 1, Len(path) - n)

MaxExts == 2      \* most extension segments of a candidate file name

RECURSIVE ExtSeqs(_)
ExtSeqs(n) ==
    IF n = 0 THEN {<<>>}
    ELSE ExtSeqs(n - 1) \cup
         {e \o x : e \in {s \in ExtSeqs(n - 1) : Len(s) = n - 1},
                   x \in {EPUB_EXT, KEPUB_EXT, OTHER_EXT}}

Paths == {<<"book">> \o e : e \in ExtSeqs(MaxExts)}

\* The files handed to _modify_epub: one per kind of extension.
Infiles == {<<"book">> \o EPUB_EXT, <<"book">> \o KEPUB_EXT, <<"book">> \o OTHER_EXT}

Uuids == {"uuid1", "uuid2"}

(***************************************************************************)
(* Preferences (get_pref).  file_copy_dir is None, "" or a directory.      *)
(***************************************************************************)
FileCopyDirs == {"None", "", "~/kepubs"}

Prefs == [extra_features : BOOLEAN, upload_encumbered : BOOLEAN,
          skip_failed : BOOLEAN, file_copy_dir : FileCopyDirs]

\* The defaults of _config.
DefaultPrefs == [extra_features |-> TRUE, upload_encumbered |-> FALSE,
                 skip_failed |-> FALSE, file_copy_dir |-> ""]

(***************************************************************************)
(* The collaborators of _modify_epub.  Each is known by its interface      *)
(* only; what it answers is chosen by the environment.                     *)
(***************************************************************************)
\* The container argument: None, or a container that reports
\* is_drm_encumbered.
NoContainer == [given |-> FALSE, is_drm_encumbered |-> FALSE]
Containers == {NoContainer} \cup
              {[given |-> TRUE, is_drm_encumbered |-> d] : d \in BOOLEAN}

\* KEPubContainer(infile, log): raises DRMError, or gives a container that
\* reports is_drm_encumbered.
OpenOutcomes == {[raised |-> TRUE, is_drm_encumbered |-> TRUE]} \cup
                {[raised |-> FALSE, is_drm_encumbered |-> d] : d \in BOOLEAN}

\* The try block: the metadata injection (driveinfo.calibre, driverinfo.kte,
\* copy_file_to_container) and then the transformer (modify_epub).  Either
\* may raise; the exception raised has a "message" attribute or not.
BodyOutcomes == {[failure |-> "none", has_message |-> TRUE]} \cup
                {[failure |-> f, has_message |-> m] :
                    f \in {"metadata", "transformer"}, m \in BOOLEAN}

Call(fn, arg) == <<fn, arg>>

NoCall == [op |-> "none", infile |-> <<>>, uuid |-> "", container |-> NoContainer,
           drm |-> "none", failure |-> "none", has_message |-> TRUE,
           skip_before |-> {}, outcome |-> "none", retval |-> FALSE,
           exc |-> "none", calls |-> <<>>, newpath |-> <<>>]

\* The end of a call of _modify_epub: what it leaves in skip_renaming_files
\* and what the caller sees.
Returns(skip, retval, calls, drm, failure, has_message) ==
    [skip |-> skip, outcome |-> "return", retval |-> retval, exc |-> "none",
     calls |-> calls, drm |-> drm, failure |-> failure, has_message |-> has_message]
Raises(skip, exc, calls, drm, failure, has_message) ==
    [skip |-> skip, outcome |-> "raise", retval |-> FALSE, exc |-> exc,
     calls |-> calls, drm |-> drm, failure |-> failure, has_message |-> has_message]

\* return super(KOBOTOUCHEXTENDED, self)._modify_epub(infile, metadata, container)
super_modify_epub(skip, calls, infile, drm, failure, has_message) ==
    {Returns(skip, r, Append(calls, Call("KOBOTOUCH._modify_epub", infile)),
             drm, failure, has_message) : r \in BOOLEAN}

(***************************************************************************)
(* _modify_epub(infile, metadata, container): the set of ways a call can   *)
(* end, given skip_renaming_files (skip) and the preferences (p) at the    *)
(* call.                                                                   *)
(***************************************************************************)

\* is_encumbered_book = False
\* try:
\*     if container is None: container = KEPubContainer(infile, log)
\*     else: is_encumbered_book = container.is_drm_encumbered
\* except DRMError: is_encumbered_book = True
is_encumbered_book(container, open) ==
    IF ~container.given THEN open.raised ELSE container.is_drm_encumbered

\* What the book is, whatever the driver finds out about it.
DrmOf(container, open) ==
    IF container.given
    THEN IF container.is_drm_encumbered THEN "reported" ELSE "none"
    ELSE IF open.raised THEN "DRMError"
         ELSE IF open.is_drm_encumbered THEN "reported" ELSE "none"

\* A variant of encumbered_result: skip_failed decides, as it does for a
\* failed transformation.
encumbered_result_by_skip_failed(skip, uuid, infile, calls, p, drm) ==
    IF p.skip_failed
    THEN super_modify_epub(skip \cup {uuid}, calls, infile, drm, "none", TRUE)
    ELSE {Raises(skip, "DRMError", calls, drm, "none", TRUE)}

\* if is_encumbered_book:
\*     self.skip_renaming_files.add(metadata.uuid)
\*     if self.upload_encumbered: return super()._modify_epub(...)
\*     else: return False
encumbered_result(skip, uuid, infile, calls, p, drm) ==
    IF p.upload_encumbered
    THEN super_modify_epub(skip \cup {uuid}, calls, infile, drm, "none", TRUE)
    ELSE {Returns(skip \cup {uuid}, FALSE, calls, drm, "none", TRUE)}

\* except Exception as e:
\*     log.exception("...".format(..., e.message))
\*     if not skip_failed: raise
\*     self.skip_renaming_files.add(metadata.uuid)
\*     return super()._modify_epub(infile, metadata, container)
\* Reading e.message raises AttributeError when e has no such attribute.
\* A variant of handle_failure: the uuid is marked before the re-raise.
handle_failure_marking(skip, uuid, infile, calls, p, drm, body) ==
    IF ~body.has_message
    THEN {Raises(skip, "AttributeError", calls, drm, body.failure, FALSE)}
    ELSE IF ~p.skip_failed
    THEN {Raises(skip \cup {uuid}, body.failure, calls, drm, body.failure, TRUE)}
    ELSE super_modify_epub(skip \cup {uuid}, calls, infile, drm, body.failure, TRUE)

handle_failure(skip, uuid, infile, calls, p, drm, body) ==
    IF ~body.has_message
    THEN {Raises(skip, "AttributeError", calls, drm, body.failure, FALSE)}
    ELSE IF ~p.skip_failed
    THEN {Raises(skip, body.failure, calls, drm, body.failure, TRUE)}
    ELSE super_modify_epub(skip \cup {uuid}, calls, infile, drm, body.failure, TRUE)

\* A variant of commit_if_retval: the commit is not conditional.
commit_always(r, infile) ==
    {[r EXCEPT !.calls = Append(r.calls, Call("container.commit", infile))],
     Raises(r.skip, "commit", Append(r.calls, Call("container.commit", infile)),
            r.drm, "commit", TRUE)}

\* retval = super()._modify_epub(infile, metadata, container)
\* if retval: container.commit(outpath=infile)
\* return retval
commit_if_retval(r, infile) ==
    IF r.retval
    THEN {[r EXCEPT !.calls = Append(r.calls, Call("container.commit", infile))],
          Raises(r.skip, "commit", Append(r.calls, Call("container.commit", infile)),
                 r.drm, "commit", TRUE)}
    ELSE {r}

\* A variant of finish_transformed: with extra_features on, a transformed
\* book is taken out of skip_renaming_files.
finish_transformed_unskip(skip, uuid, infile, calls, p, drm) ==
    LET skip1 == IF ~p.extra_features THEN skip \cup {uuid} ELSE skip \ {uuid}
        dpath == IF p.file_copy_dir = "None" THEN "" ELSE p.file_copy_dir
        calls1 == IF dpath # "" THEN Append(calls, Call("shutil.copy", infile))
                  ELSE calls
    IN  (IF dpath # "" THEN {Raises(skip1, "copy", calls1, drm, "copy", TRUE)} ELSE {})
        \cup UNION {commit_if_retval(r, infile) :
                        r \in super_modify_epub(skip1, calls1, infile, drm, "none", TRUE)}

\* if not self.extra_features: self.skip_renaming_files.add(metadata.uuid)
\* dpath = self.file_copy_dir or ""
\* if dpath != "": ...; shutil.copy(infile, dpath)
\* followed by the base class's step and the commit.
finish_transformed(skip, uuid, infile, calls, p, drm) ==
    LET skip1 == IF ~p.extra_features THEN skip \cup {uuid} ELSE skip
        dpath == IF p.file_copy_dir = "None" THEN "" ELSE p.file_copy_dir
        calls1 == IF dpath # "" THEN Append(calls, Call("shutil.copy", infile))
                  ELSE calls
    IN  (IF dpath # "" THEN {Raises(skip1, "copy", calls1, drm, "copy", TRUE)} ELSE {})
        \cup UNION {commit_if_retval(r, infile) :
                        r \in super_modify_epub(skip1, calls1, infile, drm, "none", TRUE)}

\* The try block (metadata injection, then the transformer) and what follows.
transform(skip, uuid, infile, calls, p, drm) ==
    UNION {
        IF body.failure = "metadata"
        THEN handle_failure(skip, uuid, infile, calls, p, drm, body)
        ELSE IF body.failure = "transformer"
        THEN handle_failure(skip, uuid, infile,
                            calls \o <<Call("copy_file_to_container", <<"driverinfo.kte">>),
                                       Call("modify_epub", infile)>>,
                            p, drm, body)
        ELSE finish_transformed(skip, uuid, infile,
                                calls \o <<Call("copy_file_to_container", <<"driverinfo.kte">>),
                                           Call("modify_epub", infile)>>,
                                p, drm)
        : body \in BodyOutcomes}

_modify_epub(infile, uuid, container, skip, p) ==
    IF ~endswith(infile, EPUB_EXT)
    THEN super_modify_epub(IF ~endswith(infile, KEPUB_EXT) THEN skip \cup {uuid} ELSE skip,
                           <<>>, infile, "none", "none", TRUE)
    ELSE UNION {
        LET calls == IF container.given THEN <<>> ELSE <<Call("KEPubContainer", infile)>>
            drm == DrmOf(container, open)
        IN  IF is_encumbered_book(container, open)
            THEN encumbered_result(skip, uuid, infile, calls, p, drm)
            ELSE transform(skip, uuid, infile, calls, p, drm)
        : open \in IF container.given THEN {[raised |-> FALSE,
                                             is_drm_encumbered |->
                                                 container.is_drm_encumbered]}
                   ELSE OpenOutcomes}

(***************************************************************************)
(* filename_callback(path, mi): the new path, and skip_renaming_files as   *)
(* the call leaves it.                                                     *)
(***************************************************************************)
\* A variant of filename_callback: skip_renaming_files is not consulted.
filename_callback_ignoring_skip(path, uuid, skip, p) ==
    [skip |-> skip,
     path |-> IF p.extra_features
              THEN IF endswith(path, KEPUB_EXT) THEN path \o EPUB_EXT
                   ELSE IF endswith(path, EPUB_EXT)
                   THEN drop_last(path, Len(EPUB_EXT)) \o KEPUB_EXT \o EPUB_EXT
                   ELSE path
              ELSE path]

filename_callback(path, uuid, skip, p) ==
    [skip |-> skip,
     path |-> IF p.extra_features
              THEN IF endswith(path, KEPUB_EXT) THEN path \o EPUB_EXT
                   ELSE IF endswith(path, EPUB_EXT) /\ uuid \notin skip
                   THEN drop_last(path, Len(EPUB_EXT)) \o KEPUB_EXT \o EPUB_EXT
                   ELSE path
              ELSE path]

(***************************************************************************)
(* The per-book part: the specification Spec.                              *)
(***************************************************************************)
InitEpubVars ==
    /\ prefs = DefaultPrefs
    /\ skip_renaming_files = {}
    /\ last = NoCall

\* The host's preference store changes between calls.
SetPrefs ==
    /\ \E p \in Prefs : p # prefs /\ prefs' = p
    /\ last' = NoCall
    /\ UNCHANGED skip_renaming_files

ModifyEpub ==
    /\ \E infile \in Infiles, uuid \in Uuids, container \in Containers :
         \E r \in _modify_epub(infile, uuid, container, skip_renaming_files, prefs) :
            /\ skip_renaming_files' = r.skip
            /\ last' = [op |-> "_modify_epub", infile |-> infile, uuid |-> uuid,
                        container |-> container, drm |-> r.drm,
                        failure |-> r.failure, has_message |-> r.has_message,
                        skip_before |-> skip_renaming_files,
                        outcome |-> r.outcome, retval |-> r.retval, exc |-> r.exc,
                        calls |-> r.calls, newpath |-> <<>>]
    /\ UNCHANGED prefs

FilenameCallback ==
    /\ \E path \in Paths, uuid \in Uuids :
         LET r == filename_callback(path, uuid, skip_renaming_files, prefs) IN
            /\ skip_renaming_files' = r.skip
            /\ last' = [NoCall EXCEPT !.op = "filename_callback", !.infile = path,
                                      !.uuid = uuid,
                                      !.skip_before = skip_renaming_files,
                                      !.outcome = "return", !.newpath = r.path]
    /\ UNCHANGED prefs

(***************************************************************************)
(* sync_booklists: the ImageId reconciliation.                             *)
(***************************************************************************)
MaxBooks == 250   \* most books over all booklists
BatchSize == 100  \* nulls[:100]
content_types_main == 6
content_types_content == 9

NullImageId == [kind |-> "NULL", of |-> 0]
EmptyImageId == [kind |-> "empty", of |-> 0]

\* self.imageid_from_contentid(b.contentID): a function of the content id.
imageid_from_contentid(contentID) == [kind |-> "image", of |-> contentID]

\* The content tables and booklists of the model.  Content ids are 1..n.
\* In the shape "plain" every book has an application id and a main row
\* without ImageId; in the shape "mixed" some books have no application id,
\* some have no row, and some rows have an ImageId or another content type.
Shapes == {"plain", "mixed"}

DeviceRows(n, shape) ==
    [cid \in {c \in 1..n : ~(shape = "mixed" /\ c % 7 = 0)} |->
        [ContentType |-> IF shape = "mixed" /\ cid % 5 = 0 THEN content_types_content
                         ELSE content_types_main,
         ImageId |-> IF shape = "mixed" /\ cid % 4 = 0 THEN imageid_from_contentid(cid)
                     ELSE IF cid % 2 = 0 THEN EmptyImageId ELSE NullImageId]]

BookOf(cid, shape) ==
    [application_id |-> IF shape = "mixed" /\ cid % 3 = 0 THEN PyNone
                        ELSE PyValue("int", cid),
     contentID |-> cid]

\* n books, in one booklist or split over two (main memory and card).
Booklists(n, shape, lists) ==
    IF lists = 1 THEN <<[k \in 1..n |-> BookOf(k, shape)]>>
    ELSE <<[k \in 1..(n \div 2) |-> BookOf(k, shape)],
           [k \in 1..(n - n \div 2) |-> BookOf(n \div 2 + k, shape)]>>

\* SELECT ContentId FROM content WHERE ContentType = ? AND
\*     (ImageId IS NULL OR ImageId = '')
rows_needing_imageid(d) ==
    {cid \in DOMAIN d : /\ d[cid].ContentType = content_types_main
                        /\ d[cid].ImageId \in {NullImageId, EmptyImageId}}

RECURSIVE Flatten(_)
Flatten(lists) ==
    IF lists = <<>> THEN <<>> ELSE Head(lists) \o Flatten(Tail(lists))

\* A variant of queue_nulls: being among the rows is the only condition.
queue_nulls_membership_only(lists, all_nulls) ==
    LET wanted(b) == b.contentID \in all_nulls
        books == SelectSeq(Flatten(lists), wanted)
    IN  [k \in 1..Len(books) |->
            <<imageid_from_contentid(books[k].contentID), books[k].contentID>>]

\* for booklist in booklists: for b in booklist:
\*     if b.application_id is not None and b.contentID in all_nulls:
\*         nulls.append((self.imageid_from_contentid(b.contentID), b.contentID))
queue_nulls(lists, all_nulls) ==
    LET wanted(b) == b.application_id # PyNone /\ b.contentID \in all_nulls
        books == SelectSeq(Flatten(lists), wanted)
    IN  [k \in 1..Len(books) |->
            <<imageid_from_contentid(books[k].contentID), books[k].contentID>>]

\* cursor.executemany("UPDATE content SET ImageId = ? WHERE ContentId = ?", pairs):
\* the statement runs for each pair in turn, so a row ends with the ImageId
\* of the last pair that names its ContentId.
executemany(d, pairs) ==
    [cid \in DOMAIN d |->
        LET hits == {k \in 1..Len(pairs) : pairs[k][2] = cid} IN
        IF hits = {} THEN d[cid]
        ELSE [d[cid] EXCEPT
                 !.ImageId = pairs[CHOOSE k \in hits : \A j \in hits : j <= k][1]]]

IdleSyncVars ==
    /\ pc = "idle"
    /\ booklists = <<>>
    /\ db = <<>>
    /\ nulls = <<>>
    /\ queued = <<>>
    /\ batches = <<>>

InitSyncVars ==
    /\ pc = "start"
    /\ \E n \in 0..MaxBooks, shape \in Shapes, lists \in {1, 2} :
          /\ booklists = Booklists(n, shape, lists)
          /\ db = DeviceRows(n, shape)
    /\ nulls = <<>>
    /\ queued = <<>>
    /\ batches = <<>>

\* sync_booklists up to the update loop.
SyncStart ==
    /\ pc = "start"
    /\ \E upload_covers \in BOOLEAN :
          IF upload_covers
          THEN /\ nulls' = queue_nulls(booklists, rows_needing_imageid(db))
               /\ pc' = "loop"
          ELSE /\ nulls' = <<>>
               /\ pc' = "done"
    /\ queued' = nulls'
    /\ UNCHANGED <<booklists, db, batches>>

\* nulls[:100]
first_batch(queue) == slice_to(queue, BatchSize)

\* A variant of rest_after_batch: one pair fewer is deleted.
rest_after_batch_keep_last(queue) == slice_from(queue, BatchSize - 1)

\* del nulls[:100]
rest_after_batch(queue) == slice_from(queue, BatchSize)

\* while nulls[:100]: cursor.executemany(update_query, nulls[:100]); del nulls[:100]
SyncUpdateBatch ==
    /\ pc = "loop"
    /\ first_batch(nulls) # <<>>
    /\ db' = executemany(db, first_batch(nulls))
    /\ batches' = Append(batches, first_batch(nulls))
    /\ nulls' = rest_after_batch(nulls)
    /\ UNCHANGED <<pc, booklists, queued>>

\* The loop's exit: cursor.close(), db.close(), and the base class's sync.
SyncClose ==
    /\ pc = "loop"
    /\ first_batch(nulls) = <<>>
    /\ pc' = "done"
    /\ UNCHANGED <<booklists, db, nulls, queued, batches>>

(***************************************************************************)
(* The metadata injection of _modify_epub (the first part of its try       *)
(* block), in detail: the record written to driverinfo.kte.  In            *)
(* _modify_epub above it is one step that succeeds or raises.              *)
(***************************************************************************)
\* The four properties deleted from the record read, in the order of the
\* loop.
TransientProps == <<"device_store_uuid", "prefix", "last_library_uuid", "location_code">>
DriverProps == {"kobotouchextended_version", "kobotouchextended_options",
                "kobotouchextended_currenttime"}
\* Other keys a driveinfo.calibre file may hold.
OtherProps == {"foo", "device_name", "kobotouchextended_version"}

PriorValue(prop) == <<"read from driveinfo.calibre", prop>>
\* ".".join(...self.version), str(opts.extra_customization), utcnow().ctime()
DriverValue(prop) == <<"set by the driver", prop>>

EmptyRecord == [prop \in {} |-> <<>>]
RecordOver(props) == [prop \in props |-> PriorValue(prop)]

\* driveinfo.calibre: no such file, a file that is not JSON, or a JSON
\* object over some of the keys.
NoDetailsFile == [isfile |-> FALSE, json |-> FALSE, o |-> EmptyRecord]
DetailsFiles ==
    {NoDetailsFile, [isfile |-> TRUE, json |-> FALSE, o |-> EmptyRecord]} \cup
    {[isfile |-> TRUE, json |-> TRUE, o |-> RecordOver(props)] :
        props \in SUBSET ({TransientProps[i] : i \in 1..Len(TransientProps)}
                          \cup OtherProps)}

Built(o) == [exc |-> "none", o |-> o]
Failed(exc) == [exc |-> exc, o |-> EmptyRecord]

\* for prop in (...): del o[prop]  -- KeyError when o has no such key
RECURSIVE del_props(_, _)
del_props(o, props) ==
    IF props = <<>> THEN Built(o)
    ELSE IF Head(props) \notin DOMAIN o THEN Failed("KeyError")
    ELSE del_props([prop \in DOMAIN o \ {Head(props)} |-> o[prop]], Tail(props))

\* o["kobotouchextended_version"] = ...; o["kobotouchextended_options"] = ...;
\* o["kobotouchextended_currenttime"] = ...
set_driver_props(o) ==
    [prop \in DOMAIN o \cup DriverProps |->
        IF prop \in DriverProps THEN DriverValue(prop) ELSE o[prop]]

\* o = {}
\* if os.path.isfile(calibre_details_file):
\*     o = json.loads(f.read()); for prop in (...): del o[prop]
\* o[...] = ...
build_driver_info(details) ==
    IF details.isfile
    THEN IF ~details.json THEN Failed("ValueError")
         ELSE LET read == del_props(details.o, TransientProps) IN
              IF read.exc # "none" THEN read ELSE Built(set_driver_props(read.o))
    ELSE Built(set_driver_props(EmptyRecord))

NoKteData == [done |-> FALSE, exc |-> "none", o |-> EmptyRecord, embedded |-> FALSE]

IdleInjectVars ==
    /\ calibre_details = NoDetailsFile
    /\ kte_data = NoKteData

InitInjectVars ==
    /\ calibre_details \in DetailsFiles
    /\ kte_data = NoKteData

\* The injection: the record is built and written to a temporary file, and
\* container.copy_file_to_container(..., name="driverinfo.kte", ...) embeds
\* it or raises.
InjectMetadata ==
    /\ ~kte_data.done
    /\ LET r == build_driver_info(calibre_details) IN
          IF r.exc # "none"
          THEN kte_data' = [done |-> TRUE, exc |-> r.exc, o |-> r.o, embedded |-> FALSE]
          ELSE \E raises \in BOOLEAN :
                  kte_data' = [done |-> TRUE,
                               exc |-> IF raises THEN "copy_file_to_container"
                                       ELSE "none",
                               o |-> r.o, embedded |-> ~raises]
    /\ UNCHANGED calibre_details

(***************************************************************************)
(* The specifications.                                                     *)
(***************************************************************************)
Init == IdleMigrateVars /\ InitEpubVars /\ IdleSyncVars /\ IdleInjectVars

Next ==
    \/ ModifyEpub /\ UNCHANGED <<migrate_vars, sync_vars, inject_vars>>
    \/ FilenameCallback /\ UNCHANGED <<migrate_vars, sync_vars, inject_vars>>
    \/ SetPrefs /\ UNCHANGED <<migrate_vars, sync_vars, inject_vars>>

Spec == Init /\ [][Next]_vars

InitMigrate == InitMigrateVars /\ InitEpubVars /\ IdleSyncVars /\ IdleInjectVars

NextMigrate == Migrate /\ UNCHANGED <<epub_vars, sync_vars, inject_vars>>

SpecMigrate == InitMigrate /\ [][NextMigrate]_vars

InitSync == IdleMigrateVars /\ InitEpubVars /\ InitSyncVars /\ IdleInjectVars

NextSync ==
    \/ SyncStart /\ UNCHANGED <<migrate_vars, epub_vars, inject_vars>>
    \/ SyncUpdateBatch /\ UNCHANGED <<migrate_vars, epub_vars, inject_vars>>
    \/ SyncClose /\ UNCHANGED <<migrate_vars, epub_vars, inject_vars>>

SpecSync == InitSync /\ [][NextSync]_vars

InitInject == IdleMigrateVars /\ InitEpubVars /\ IdleSyncVars /\ InitInjectVars

NextInject == InjectMetadata /\ UNCHANGED <<migrate_vars, epub_vars, sync_vars>>

SpecInject == InitInject /\ [][NextInject]_vars

(***************************************************************************)
(* Properties of migrate_old_settings (checked under SpecMigrate).         *)
(***************************************************************************)
Migrated == runs >= 1
LegacyLen == Len(prev_settings.extra_customization)
OrigLen == Len(orig_settings.extra_customization)
Legacy(idx) == prev_settings.extra_customization[idx + 1]

\* C1 as stated: a call on a legacy array of fewer than 9 elements (0 to 8)
\* returns the settings, fields and array alike, unchanged.
C1_ShorterThanNineUnchanged ==
    (Migrated /\ LegacyLen < 9) => settings = prev_settings

\* C1, amended: a call on a legacy array of fewer than 8 elements (0 to 7)
\* returns the settings, every policy field and the array itself, unchanged;
\* the only exception the reads can raise, IndexError, is caught.
C1_ShorterThanEightUnchanged ==
    (Migrated /\ LegacyLen < 8) => settings = prev_settings

C1_Witness ==
    /\ Migrated
    /\ LegacyLen = 7
    /\ settings = prev_settings

\* C2 as stated: after a call on a legacy array of n >= 9 elements each of
\* the 9 fields holds the value at its index and max(0, n - 10) elements
\* remain.
C2_NineFieldsAndTenDropped ==
    (Migrated /\ LegacyLen >= 9) =>
        /\ settings.extra_features = Legacy(0)
        /\ settings.upload_encumbered = Legacy(1)
        /\ settings.skip_failed = Legacy(2)
        /\ settings.hyphenate = Legacy(3)
        /\ settings.smarten_punctuation = Legacy(4)
        /\ settings.clean_markup = Legacy(5)
        /\ settings.full_page_numbers = Legacy(6)
        /\ settings.file_copy_dir = Legacy(7)
        /\ settings.disable_hyphenation = Legacy(8)
        /\ Len(settings.extra_customization) =
               IF LegacyLen - 10 > 0 THEN LegacyLen - 10 ELSE 0

\* C2, amended: after a call on a legacy array of n >= 9 elements, each of
\* the 8 fields other than file_copy_dir holds the value at its index,
\* file_copy_dir holds the value at index 7 when that is a text value and
\* None otherwise, and the array that remains is the n - 9 elements from
\* index 9 on (the 9 consumed ones are dropped, and no spacer).
C2_FieldsFromIndexAndNineDropped ==
    (Migrated /\ LegacyLen >= 9) =>
        /\ settings.extra_features = Legacy(0)
        /\ settings.upload_encumbered = Legacy(1)
        /\ settings.skip_failed = Legacy(2)
        /\ settings.hyphenate = Legacy(3)
        /\ settings.smarten_punctuation = Legacy(4)
        /\ settings.clean_markup = Legacy(5)
        /\ settings.full_page_numbers = Legacy(6)
        /\ settings.file_copy_dir =
               IF Legacy(7).type = "str" THEN Legacy(7) ELSE PyNone
        /\ settings.disable_hyphenation = Legacy(8)
        /\ Len(settings.extra_customization) = LegacyLen - 9
        /\ \A k \in 1..(LegacyLen - 9) :
               settings.extra_customization[k] = Legacy(9 + k - 1)

C2_Witness ==
    /\ runs = 1
    /\ LegacyLen = 11
    /\ Len(settings.extra_customization) = 2
    /\ settings.disable_hyphenation = Legacy(8)

\* C3 as stated: for every legacy array, a second call on the settings and
\* trimmed array of a first call changes nothing.
C3_SecondRunChangesNothing ==
    runs >= 2 => settings = prev_settings

\* C3, amended: for every legacy array of at most 16 elements (the trimmed
\* array of the first call then has fewer than 8), a second call on the
\* settings and trimmed array of a first call changes no policy field and
\* leaves the trimmed array unchanged.
C3_SecondRunChangesNothingUpTo16 ==
    (runs >= 2 /\ OrigLen <= 16) => settings = prev_settings

C3_Witness ==
    /\ runs = 2
    /\ OrigLen = 16
    /\ LegacyLen = 7
    /\ settings = prev_settings
    /\ settings # orig_settings

(***************************************************************************)
(* Properties of _modify_epub and filename_callback (checked under Spec).  *)
(***************************************************************************)
BaseCall == Call("KOBOTOUCH._modify_epub", last.infile)
CommitCall == Call("container.commit", last.infile)
TransformerCall == Call("modify_epub", last.infile)
Called(c) == \E k \in 1..Len(last.calls) : last.calls[k] = c
LastCalled(c) == Len(last.calls) > 0 /\ last.calls[Len(last.calls)] = c

\* A call of _modify_epub on a file with the packaged-document extension.
EpubRun == last.op = "_modify_epub" /\ endswith(last.infile, EPUB_EXT)

\* The call ended as the base class's plain passthrough does: the base
\* class's step was the last thing done and its answer was returned.
Passthrough == last.outcome = "return" /\ LastCalled(BaseCall) /\ ~Called(CommitCall)

\* The call returned the abort result.
Aborted == last.outcome = "return" /\ ~last.retval /\ ~Called(BaseCall)

\* C4: an encumbered book (opening raises DRMError, or the container, given
\* or freshly opened, reports is_drm_encumbered) ends in the abort result
\* when upload_encumbered is false and in plain passthrough when it is
\* true, the transformer is never called, and the uuid is in
\* skip_renaming_files when the call ends.
C4_EncumberedNeverTransformed ==
    (EpubRun /\ last.drm # "none") =>
        /\ IF prefs.upload_encumbered THEN Passthrough ELSE Aborted
        /\ ~Called(TransformerCall)
        /\ last.uuid \in skip_renaming_files

\* C5: for a path that already ends in .kepub.epub, filename_callback
\* returns the path as it is.
C5_ResolvedNameKept ==
    (last.op = "filename_callback" /\ endswith(last.infile, KEPUB_EXT \o EPUB_EXT)) =>
        last.newpath = last.infile

\* C6: for a path ending in .epub, filename_callback returns the path with
\* .kepub spliced in before .epub exactly when extra_features is true and
\* the uuid is not in skip_renaming_files, returns it unchanged otherwise,
\* and leaves skip_renaming_files as it was.
C6_SpliceExactlyWhenWanted ==
    (last.op = "filename_callback" /\ endswith(last.infile, EPUB_EXT)) =>
        /\ last.newpath =
              IF prefs.extra_features /\ last.uuid \notin last.skip_before
              THEN SubSeq(last.infile, 1, Len(last.infile) - 1) \o <<".kepub", ".epub">>
              ELSE last.infile
        /\ skip_renaming_files = last.skip_before

C6_Witness ==
    /\ last.op = "filename_callback"
    /\ last.infile = <<"book", ".epub">>
    /\ last.newpath = <<"book", ".kepub", ".epub">>
    /\ skip_renaming_files = {"uuid2"}
    /\ last.uuid = "uuid1"

\* C7: when the metadata injection or the transformer raises, the failure
\* propagates if skip_failed is false; if skip_failed is true it does not
\* propagate, the uuid is added to skip_renaming_files and the call ends as
\* plain passthrough, without a commit.
C7_FailureGovernedBySkipFailed ==
    (EpubRun /\ last.failure \in {"metadata", "transformer"}) =>
        IF prefs.skip_failed
        THEN Passthrough /\ last.uuid \in skip_renaming_files
        ELSE last.outcome = "raise"

\* The driver finds the book encumbered: opening raised DRMError, or the
\* container handed in reports is_drm_encumbered.
DetectedEncumbered ==
    \/ last.drm = "DRMError"
    \/ last.container.given /\ last.drm = "reported"

\* C8 as stated: an encumbered book is governed by skip_failed: passthrough
\* and marked in skip_renaming_files when it is true, a failure propagated
\* to the caller when it is false, whatever upload_encumbered is.
C8_EncumberedGovernedBySkipFailed ==
    (EpubRun /\ DetectedEncumbered) =>
        IF prefs.skip_failed
        THEN Passthrough /\ last.uuid \in skip_renaming_files
        ELSE last.outcome = "raise"

\* C8, amended: an encumbered book that the driver detects is governed by
\* upload_encumbered and not by skip_failed: the condition never propagates
\* to the caller as a failure, the uuid is marked in skip_renaming_files,
\* and the call ends as plain passthrough when upload_encumbered is true
\* and with the abort result (False) when it is false, whatever skip_failed
\* is.
C8_EncumberedGovernedByUploadEncumbered ==
    (EpubRun /\ DetectedEncumbered) =>
        /\ last.outcome = "return"
        /\ last.exc = "none"
        /\ last.uuid \in skip_renaming_files
        /\ IF prefs.upload_encumbered THEN Passthrough ELSE Aborted

C8_Witness ==
    /\ EpubRun
    /\ last.drm = "DRMError"
    /\ prefs.skip_failed
    /\ ~prefs.upload_encumbered
    /\ Aborted
    /\ last.uuid \in skip_renaming_files

\* Metadata injection and the transformer both succeeded.
Transformed == EpubRun /\ Called(TransformerCall) /\ last.failure # "transformer"

\* C9 as stated: a call in which injection and transformer both succeed
\* ends by calling the commit on the original path; it returns true only
\* after a commit; a commit failure propagates.
C9_AlwaysEndsWithCommit ==
    Transformed =>
        /\ LastCalled(CommitCall)
        /\ (last.outcome = "return" /\ last.retval) => Called(CommitCall)
        /\ last.failure = "commit" => last.outcome = "raise"

\* C9, amended: a call in which injection and transformer both succeed
\* ends by calling the commit on the original path when the copy to
\* file_copy_dir (if any) did not fail and the base class's step returned
\* true; when the base class's step returns false the call returns false
\* without a commit, and when the copy fails the failure propagates before
\* the base class's step.  The call returns true only after the base
\* class's step and the commit; a commit failure always propagates.
C9_CommitWhenBaseStepTrue ==
    Transformed =>
        \/ /\ last.failure = "copy"
           /\ last.outcome = "raise"
           /\ ~Called(BaseCall) /\ ~Called(CommitCall)
        \/ /\ last.failure = "none"
           /\ last.outcome = "return" /\ ~last.retval
           /\ LastCalled(BaseCall) /\ ~Called(CommitCall)
        \/ /\ LastCalled(CommitCall)
           /\ last.calls[Len(last.calls) - 1] = BaseCall
           /\ \/ last.failure = "none" /\ last.outcome = "return" /\ last.retval
              \/ last.failure = "commit" /\ last.outcome = "raise" /\ last.exc = "commit"

C9_Witness ==
    /\ Transformed
    /\ prefs.file_copy_dir = "~/kepubs"
    /\ last.outcome = "return"
    /\ last.retval
    /\ LastCalled(CommitCall)

(***************************************************************************)
(* Properties of sync_booklists (checked under SpecSync).                  *)
(***************************************************************************)
\* C10: for a queue of n pairs the update loop ends with an empty queue
\* after exactly ceil(n / 100) bulk updates, every batch but possibly the
\* last holding 100 pairs, and the pairs applied once each in queue order;
\* until then a step of the loop is always possible and the batches issued
\* plus the queue left are the queue as built.
C10_BatchesOfOneHundred ==
    /\ pc = "loop" =>
          /\ ENABLED (SyncUpdateBatch \/ SyncClose)
          /\ Flatten(batches) \o nulls = queued
          /\ \A k \in 1..Len(batches) :
                (k < Len(batches) \/ nulls # <<>>) => Len(batches[k]) = 100
    /\ pc = "done" =>
          /\ nulls = <<>>
          /\ Len(batches) = (Len(queued) + 99) \div 100
          /\ \A k \in 1..Len(batches) :
                Len(batches[k]) = IF k < Len(batches) THEN 100
                                  ELSE Len(queued) - 100 * (Len(batches) - 1)
          /\ \A k \in 1..Len(batches) : Len(batches[k]) >= 1
          /\ Flatten(batches) = queued
          /\ \A k \in 1..Len(queued) : db[queued[k][2]].ImageId = queued[k][1]

C10_Witness ==
    /\ pc = "done"
    /\ Len(queued) = 250
    /\ nulls = <<>>
    /\ Len(batches) = 3
    /\ Len(batches[1]) = 100 /\ Len(batches[2]) = 100 /\ Len(batches[3]) = 50

\* The queue has just been built: the content table is still as it was read.
QueueBuilt == pc = "loop" /\ batches = <<>>
AllBooks == Flatten(booklists)
\* The main-type rows whose ImageId is null or empty.
RowNeedsImageId(cid) ==
    /\ cid \in DOMAIN db
    /\ db[cid].ContentType = 6
    /\ db[cid].ImageId.kind \in {"NULL", "empty"}

\* C11 as stated: a pair is queued for every book, in every booklist, whose
\* content id is among the main-type rows without ImageId, and for no other
\* book: being among those rows is the only condition.
C11_QueuedIffRowNeedsImageId ==
    QueueBuilt =>
        \A i \in 1..Len(AllBooks) :
            RowNeedsImageId(AllBooks[i].contentID)
                <=> \E k \in 1..Len(queued) : queued[k][2] = AllBooks[i].contentID

\* The positions, over all booklists in order, of the books that have an
\* application id and whose content id is among the rows without ImageId.
WantedPositions ==
    {i \in 1..Len(AllBooks) : /\ AllBooks[i].application_id.type # "NoneType"
                              /\ RowNeedsImageId(AllBooks[i].contentID)}

\* C11, amended: a pair (image id of the content id, content id) is queued,
\* in booklist order, for every book in every booklist that has an
\* application id (application_id is not None) and whose content id is
\* among the main-type rows with null or empty ImageId, and for no other
\* book.
C11_QueuedIffKnownBookAndRowNeedsImageId ==
    QueueBuilt =>
        /\ Len(queued) = Cardinality(WantedPositions)
        /\ \A i \in WantedPositions :
              queued[Cardinality({j \in WantedPositions : j <= i})] =
                  <<[kind |-> "image", of |-> AllBooks[i].contentID],
                    AllBooks[i].contentID>>

C11_Witness ==
    /\ QueueBuilt
    /\ Len(booklists) = 2
    /\ Len(AllBooks) = 12
    /\ \E i \in 1..Len(AllBooks) :
          /\ AllBooks[i].application_id.type = "NoneType"
          /\ RowNeedsImageId(AllBooks[i].contentID)
    /\ \E i \in 1..Len(AllBooks) :
          /\ AllBooks[i].application_id.type # "NoneType"
          /\ ~RowNeedsImageId(AllBooks[i].contentID)
    /\ Len(queued) = 3

(***************************************************************************)
(* Properties of the metadata injection (checked under SpecInject).        *)
(***************************************************************************)
RecordBuilt == kte_data.exc \in {"none", "copy_file_to_container"}
Transient == {"device_store_uuid", "prefix", "last_library_uuid", "location_code"}
ThreeSet ==
    /\ "kobotouchextended_version" \in DOMAIN kte_data.o
    /\ "kobotouchextended_options" \in DOMAIN kte_data.o
    /\ "kobotouchextended_currenttime" \in DOMAIN kte_data.o
    /\ \A prop \in DOMAIN kte_data.o :
          prop \in {"kobotouchextended_version", "kobotouchextended_options",
                    "kobotouchextended_currenttime"}
              => kte_data.o[prop] = <<"set by the driver", prop>>

\* C12: for every existing driver-info record the injection produces a
\* record without the four transient keys, with every other prior key and
\* its value, and with the three kobotouchextended_ keys set; with no prior
\* record it starts from an empty record, without error.
C12_RecordStrippedAndStamped ==
    (kte_data.done /\ (calibre_details.json \/ ~calibre_details.isfile)) =>
        /\ RecordBuilt
        /\ ThreeSet
        /\ DOMAIN kte_data.o \cap Transient = {}
        /\ \A prop \in DOMAIN calibre_details.o \ Transient :
              /\ prop \in DOMAIN kte_data.o
              /\ (prop # "kobotouchextended_version")
                    => kte_data.o[prop] = calibre_details.o[prop]
        /\ ~calibre_details.isfile =>
              DOMAIN kte_data.o = {"kobotouchextended_version",
                                   "kobotouchextended_options",
                                   "kobotouchextended_currenttime"}

(***************************************************************************)
(* The file_copy_dir slot (checked under SpecMigrate).                     *)
(***************************************************************************)
FileCopyDirSlot == Legacy(opt_file_copy_dir)

\* C13: when the legacy array is migrated and the value at index 7 is not a
\* text value, file_copy_dir is None and never the raw value; when it is a
\* text value, file_copy_dir is that value.
C13_FileCopyDirTextOrNone ==
    (Migrated /\ needs_migration(prev_settings.extra_customization)) =>
        /\ ~isinstance_str(FileCopyDirSlot) =>
              /\ settings.file_copy_dir = PyNone
              /\ settings.file_copy_dir # FileCopyDirSlot
        /\ isinstance_str(FileCopyDirSlot) =>
              settings.file_copy_dir = FileCopyDirSlot

C13_Witness ==
    /\ runs = 1
    /\ LegacyLen = 8
    /\ ~isinstance_str(FileCopyDirSlot)
    /\ prev_settings.file_copy_dir # PyNone
    /\ settings.file_copy_dir = PyNone

(***************************************************************************)
(* skip_renaming_files across calls (checked under Spec).                  *)
(***************************************************************************)
\* One step: nothing leaves skip_renaming_files; and when the step is a
\* call of _modify_epub with extra_features on, in which injection and
\* transformer succeed, for a uuid that was in skip_renaming_files before
\* it, the uuid is still there and filename_callback returns every path
\* ending in ".epub" as it is for that uuid.
SkipSetStep ==
    /\ skip_renaming_files \subseteq skip_renaming_files'
    /\ (/\ last'.op = "_modify_epub"
        /\ endswith(last'.infile, EPUB_EXT)
        /\ \E k \in 1..Len(last'.calls) : last'.calls[k] = Call("modify_epub", last'.infile)
        /\ last'.failure = "none"
        /\ prefs'.extra_features
        /\ last'.uuid \in skip_renaming_files)
       => /\ last'.uuid \in skip_renaming_files'
          /\ \A path \in Paths :
                endswith(path, EPUB_EXT) =>
                    filename_callback(path, last'.uuid, skip_renaming_files',
                                      prefs').path = path

\* C14: over any sequence of calls of _modify_epub and filename_callback no
\* uuid is ever removed from skip_renaming_files; so a book whose uuid got
\* into it in an earlier call is still returned un-renamed by
\* filename_callback after a later call for the same book that transforms
\* successfully with extra_features true.
C14_SkipSetOnlyGrows == [][SkipSetStep]_vars

C14_Witness ==
    /\ Transformed
    /\ last.outcome = "return"
    /\ last.retval
    /\ prefs.extra_features
    /\ last.uuid \in last.skip_before
    /\ last.uuid \in skip_renaming_files
    /\ filename_callback(last.infile, last.uuid, skip_renaming_files, prefs).path
           = last.infile

\* C15: when a failure of the metadata injection or of the transformer
\* propagates to the caller (skip_failed false), the call leaves
\* skip_renaming_files as it was before the call, copies nothing to
\* file_copy_dir and never calls the container's commit.
C15_PropagatedFailureLeavesNoTrace ==
    (EpubRun /\ last.failure \in {"metadata", "transformer"} /\ ~prefs.skip_failed) =>
        /\ last.outcome = "raise"
        /\ skip_renaming_files = last.skip_before
        /\ ~Called(Call("shutil.copy", last.infile))
        /\ ~Called(CommitCall)

C15_Witness ==
    /\ EpubRun
    /\ last.failure = "transformer"
    /\ last.exc = "transformer"
    /\ last.outcome = "raise"
    /\ ~prefs.skip_failed
    /\ prefs.file_copy_dir = "~/kepubs"
    /\ last.uuid = "uuid1"
    /\ last.skip_before = {"uuid2"}
    /\ skip_renaming_files = {"uuid2"}
    /\ ~Called(CommitCall)

====
